---- MODULE Spec2Model ----
(***************************************************************************)
(* Model of the curriculum graph construction and validation engine of     *)
(* graph_builder.py: validate_no_cycles, validate_edges,                   *)
(* generate_implicit_relationships, prune_redundant_hierarchy and the      *)
(* __main__ ingestion pipeline that sequences them in front of the Neo4j   *)
(* store.                                                                  *)
(*                                                                         *)
(* Encoding of node ids.  The code splits ids at '_' (rsplit('_', 1)) and  *)
(* tests the suffix "_EX", so an id is modelled as the non-empty sequence  *)
(* of its '_'-separated segments: "A_1" is <<"A", "1">>, "A_1_EX" is       *)
(* <<"A", "1", "EX">>.  The empty sequence << >> is no id; it stands for   *)
(* "no node" in results.                                                   *)
(*                                                                         *)
(* Encoding of edges.  An edge dict is the record                          *)
(* [source, target, relation, generated]; an explicit edge (no "generated" *)
(* key in the JSON) has generated = FALSE.  Any further key of the dict    *)
(* (a relationship property such as "weight") is a further field of the    *)
(* record.                                                                 *)
(***************************************************************************)
EXTENDS Integers, Sequences, FiniteSets, TLC

VARIABLES
    pc,              \* position of the __main__ pipeline
    nodes,           \* curriculum_data["nodes"], mutated by pre-processing
    explicit_edges,  \* curriculum_data["relationships"]
    validationMode,  \* mode the caller asks for ("strict" / "lenient")
    implicit_edges,  \* result of generate_implicit_relationships
    combined_edges,  \* explicit + implicit, deduplicated
    pruned_edges,    \* result of prune_redundant_hierarchy
    final_edges,     \* result of validate_edges
    store,           \* calls received by the CurriculumGraphBuilder, in order
    error,           \* exception caught by the except clause, if any
    arg_nodes,       \* function harness: the nodes argument
    arg_edges,       \* function harness: the edges argument
    call,            \* function harness: which function has been applied
    ret,             \* function harness: its outcome
    frame,           \* function harness: locals of a traversal in progress
    arg_toc,         \* function harness: the table of contents of the PDF
    frames_left      \* function harness: calls the interpreter can still nest

vars == <<pc, nodes, explicit_edges, validationMode, implicit_edges,
          combined_edges, pruned_edges, final_edges, store, error,
          arg_nodes, arg_edges, call, ret, frame, arg_toc, frames_left>>

pipelineVars == <<pc, nodes, explicit_edges, validationMode, implicit_edges,
                  combined_edges, pruned_edges, final_edges, store, error>>

harnessVars == <<arg_nodes, arg_edges, call, ret, frame, arg_toc, frames_left>>

----------------------------------------------------------------------------
(* Bounds of the model *)

MaxNodes == 2

MaxExplicit == 2

MaxValidateEdges == 2

MaxCycleEdges == 3

\* Largest number of nested calls left to a traversal that is entered.
MaxFramesLeft == 4

MaxPruneEdges == 4

MaxGenerateNodes == 4

MaxNormalizeNodes == 3

MaxTraverseEdges == 3

MaxTocEntries == 4

----------------------------------------------------------------------------
(* Generic helpers *)

SeqsUpTo(S, n) == UNION {[1..k -> S] : k \in 0..n}

Range(s) == {s[i] : i \in 1..Len(s)}

\* All orders in which a set can be iterated: the sequences that list S once.
Orders(S) == {o \in [1..Cardinality(S) -> S] : Range(o) = S}

\* The elements of set S, listed in the order they have in o.
RECURSIVE IterateSet(_, _)
IterateSet(S, o) ==
    IF o = << >> THEN << >>
    ELSE IF Head(o) \in S THEN <<Head(o)>> \o IterateSet(S, Tail(o))
         ELSE IterateSet(S, Tail(o))

----------------------------------------------------------------------------
(* Data model *)

ALLOWED_RELATIONS == {"HAS_PART", "REQUIRES", "RELATED_TO", "HAS_EXERCISE"}

hierarchy_types == {"HAS_PART", "HAS_EXERCISE"}

Edge(s, t, r, g) == [source |-> s, target |-> t, relation |-> r, generated |-> g]

\* An edge dict that carries one more key, the property "weight".
WeightedEdge(s, t, r, g, w) ==
    [source |-> s, target |-> t, relation |-> r, generated |-> g, weight |-> w]

Node(i, l) == [id |-> i, label |-> l]

NoId == << >>

\* Outcome of a call: a returned edge list, or a raised exception.  A
\* ValueError carries the offending relation (validate_edges) or node id
\* (validate_no_cycles).
Returned(v) ==
    [raised |-> FALSE, exception |-> "", value |-> v, relation |-> "", node |-> NoId]

Raised(r, n) ==
    [raised |-> TRUE, exception |-> "ValueError", value |-> << >>,
     relation |-> r, node |-> n]

\* An exception other than the ValueErrors of the checks: it names neither a
\* relation nor a node.
RaisedOther(exception) ==
    [raised |-> TRUE, exception |-> exception, value |-> << >>,
     relation |-> "", node |-> NoId]

\* The interpreter's error when a call would nest deeper than its recursion
\* limit allows (sys.getrecursionlimit(), 1000 unless the caller changes it).
RecursionError == RaisedOther("RecursionError")

NoOutcome == Returned(<< >>)

\* The locals of a traversal: no traversal in progress.
IdleFrame ==
    [pc |-> "idle", order |-> << >>, i |-> 0, kept |-> << >>,
     queue |-> << >>, visited |-> {}, stack |-> {}, roots |-> << >>, calls |-> << >>]

----------------------------------------------------------------------------
(* validate_edges *)

RECURSIVE validate_edges_loop(_, _, _, _)

\* Variant: the endpoints are looked at before the relation.
validate_edges_loop_endpoints_first(node_ids, edges, i, valid_edges) ==
    IF i > Len(edges) THEN Returned(valid_edges)
    ELSE LET e == edges[i] IN
         IF e.source \notin node_ids \/ e.target \notin node_ids
         THEN validate_edges_loop(node_ids, edges, i + 1, valid_edges)
         ELSE IF e.relation \notin ALLOWED_RELATIONS THEN Raised(e.relation, NoId)
         ELSE validate_edges_loop(node_ids, edges, i + 1, Append(valid_edges, e))

\* Variant: only the source of an edge is looked up.
validate_edges_loop_source_only(node_ids, edges, i, valid_edges) ==
    IF i > Len(edges) THEN Returned(valid_edges)
    ELSE LET e == edges[i] IN
         IF e.relation \notin ALLOWED_RELATIONS THEN Raised(e.relation, NoId)
         ELSE IF e.source \notin node_ids
              THEN validate_edges_loop(node_ids, edges, i + 1, valid_edges)
         ELSE validate_edges_loop(node_ids, edges, i + 1, Append(valid_edges, e))

validate_edges_loop(node_ids, edges, i, valid_edges) ==
    IF i > Len(edges) THEN Returned(valid_edges)
    ELSE LET e == edges[i] IN
         IF e.relation \notin ALLOWED_RELATIONS THEN Raised(e.relation, NoId)
         ELSE IF e.source \notin node_ids
              THEN validate_edges_loop(node_ids, edges, i + 1, valid_edges)
         ELSE IF e.target \notin node_ids
              THEN validate_edges_loop(node_ids, edges, i + 1, valid_edges)
         ELSE validate_edges_loop(node_ids, edges, i + 1, Append(valid_edges, e))

validate_edges(ns, edges) ==
    LET node_ids == {ns[k].id : k \in 1..Len(ns)}
    IN  validate_edges_loop(node_ids, edges, 1, << >>)

----------------------------------------------------------------------------
(* validate_no_cycles *)

\* graph = defaultdict(list): source -> targets of its REQUIRES edges, in
\* edge order, duplicates kept.
RECURSIVE requires_targets(_, _)
requires_targets(edges, s) ==
    IF edges = << >> THEN << >>
    ELSE LET e == Head(edges) IN
         IF e.relation = "REQUIRES" /\ e.source = s
         THEN <<e.target>> \o requires_targets(Tail(edges), s)
         ELSE requires_targets(Tail(edges), s)

requires_keys(edges) ==
    {edges[i].source : i \in {j \in 1..Len(edges) : edges[j].relation = "REQUIRES"}}

requires_graph(edges) == [s \in requires_keys(edges) |-> requires_targets(edges, s)]

\* graph.get(node, [])
graph_get(graph, node) == IF node \in DOMAIN graph THEN graph[node] ELSE << >>

\* dfs(node) with the closure's visited / stack sets threaded through:
\* st = [found, overflow, visited, stack].  depth counts the nested calls of
\* dfs, this one included, and limit is how many calls the interpreter still
\* lets nest.  A call that would nest deeper raises RecursionError (overflow),
\* and no caller catches it: the call of dfs itself at depth, or, once the
\* two tests have passed, the call visited.add(node) one level below it.
RECURSIVE dfs(_, _, _, _, _)
RECURSIVE dfs_neighbours(_, _, _, _, _, _)

dfs(graph, node, st, depth, limit) ==
    IF depth > limit THEN [st EXCEPT !.overflow = TRUE]
    ELSE IF node \in st.stack THEN [st EXCEPT !.found = TRUE]
    ELSE IF node \in st.visited THEN [st EXCEPT !.found = FALSE]
    ELSE IF depth + 1 > limit THEN [st EXCEPT !.overflow = TRUE]
    ELSE LET entered == [found |-> FALSE, overflow |-> FALSE,
                         visited |-> st.visited \cup {node},
                         stack |-> st.stack \cup {node}]
             after == dfs_neighbours(graph, graph_get(graph, node), 1, entered,
                                     depth, limit)
         IN  IF after.overflow \/ after.found THEN after
             ELSE [after EXCEPT !.stack = after.stack \ {node}]

dfs_neighbours(graph, neis, i, st, depth, limit) ==
    IF i > Len(neis) THEN [st EXCEPT !.found = FALSE]
    ELSE LET r == dfs(graph, neis[i], st, depth + 1, limit) IN
         IF r.overflow \/ r.found THEN r
         ELSE dfs_neighbours(graph, neis, i + 1, r, depth, limit)

requires_all_nodes(edges) ==
    LET graph == requires_graph(edges)
    IN  DOMAIN graph \cup UNION {Range(graph[s]) : s \in DOMAIN graph}

\* for n in all_nodes: if dfs(n): raise ValueError(... n ...)
RECURSIVE cycle_roots_loop(_, _, _, _, _)
cycle_roots_loop(graph, roots, i, st, limit) ==
    IF i > Len(roots) THEN Returned(<< >>)
    ELSE LET r == dfs(graph, roots[i], st, 1, limit) IN
         IF r.overflow THEN RecursionError
         ELSE IF r.found THEN Raised("", roots[i])
         ELSE cycle_roots_loop(graph, roots, i + 1, r, limit)

\* order: the order in which the set all_nodes is iterated (hash order).
\* limit: how many calls the interpreter still lets validate_no_cycles nest
\* (its recursion limit less the frames in use when the function runs).
validate_no_cycles(edges, order, limit) ==
    LET graph == requires_graph(edges)
        all_nodes == requires_all_nodes(edges)
    IN  cycle_roots_loop(graph, IterateSet(all_nodes, order), 1,
                         [found |-> FALSE, overflow |-> FALSE,
                          visited |-> {}, stack |-> {}], limit)

----------------------------------------------------------------------------
(* generate_implicit_relationships *)

\* "_" in curr_id
has_underscore(id) == Len(id) > 1

\* curr_id.rsplit('_', 1)[0]
rsplit_parent(id) == SubSeq(id, 1, Len(id) - 1)

\* node_labels = {n["id"]: label}: a later node with the same id overwrites
\* an earlier one.
node_label_of(ns, id) ==
    LET ks == {k \in 1..Len(ns) : ns[k].id = id}
    IN  ns[CHOOSE k \in ks : \A j \in ks : j <= k].label

RECURSIVE generate_loop(_, _, _)

\* Variant: the search for a parent goes on after the immediate parent, and
\* every prefix of the id that is a node id gets an edge.
generate_loop_every_ancestor(ns, i, implicit) ==
    IF i > Len(ns) THEN implicit
    ELSE LET curr_id == ns[i].id
             node_ids == {ns[k].id : k \in 1..Len(ns)}
             rel_type == IF node_label_of(ns, curr_id) = "Exercise"
                         THEN "HAS_EXERCISE" ELSE "HAS_PART"
             RECURSIVE ancestors(_)
             ancestors(n) ==
                 IF n = 0 THEN << >>
                 ELSE IF SubSeq(curr_id, 1, n) \in node_ids
                      THEN <<Edge(SubSeq(curr_id, 1, n), curr_id, rel_type, TRUE)>>
                               \o ancestors(n - 1)
                      ELSE ancestors(n - 1)
         IN  generate_loop(ns, i + 1, implicit \o ancestors(Len(curr_id) - 1))

generate_loop(ns, i, implicit) ==
    IF i > Len(ns) THEN implicit
    ELSE LET curr_id == ns[i].id
             node_ids == {ns[k].id : k \in 1..Len(ns)}
         IN  IF has_underscore(curr_id) /\ rsplit_parent(curr_id) \in node_ids
             THEN LET rel_type == IF node_label_of(ns, curr_id) = "Exercise"
                                  THEN "HAS_EXERCISE" ELSE "HAS_PART"
                  IN  generate_loop(ns, i + 1,
                          Append(implicit,
                                 Edge(rsplit_parent(curr_id), curr_id, rel_type, TRUE)))
             ELSE generate_loop(ns, i + 1, implicit)

generate_implicit_relationships(ns) == generate_loop(ns, 1, << >>)

----------------------------------------------------------------------------
(* prune_redundant_hierarchy *)

hierarchy_edges_of(edges) == SelectSeq(edges, LAMBDA e : e.relation \in hierarchy_types)

other_edges_of(edges) == SelectSeq(edges, LAMBDA e : e.relation \notin hierarchy_types)

\* adj = defaultdict(set): source -> set of targets of its hierarchy edges.
adj_of(edges) ==
    LET h == hierarchy_edges_of(edges)
    IN  [s \in {h[i].source : i \in 1..Len(h)} |->
            {h[i].target : i \in {j \in 1..Len(h) : h[j].source = s}}]

\* adj[curr] on a defaultdict: the empty set for a missing key.
adj_get(adj, curr) == IF curr \in DOMAIN adj THEN adj[curr] ELSE {}

\* The for-loop over the neighbours of curr; st = [found, queue, visited].
RECURSIVE bfs_neighbours(_, _, _, _, _, _)

\* Variant: end is skipped from every node, not only from start.
bfs_neighbours_skip_end(neighbors, i, curr, start, end, st) ==
    IF i > Len(neighbors) THEN st
    ELSE LET n == neighbors[i] IN
         IF n = end
         THEN bfs_neighbours(neighbors, i + 1, curr, start, end, st)
         ELSE IF n \notin st.visited
              THEN bfs_neighbours(neighbors, i + 1, curr, start, end,
                       [st EXCEPT !.visited = st.visited \cup {n},
                                  !.queue = Append(st.queue, n)])
         ELSE bfs_neighbours(neighbors, i + 1, curr, start, end, st)

\* Variant: the direct edge start -> end is not skipped.
bfs_neighbours_direct_counts(neighbors, i, curr, start, end, st) ==
    IF i > Len(neighbors) THEN st
    ELSE LET n == neighbors[i] IN
         IF n = end THEN [st EXCEPT !.found = TRUE]
         ELSE IF n \notin st.visited
              THEN bfs_neighbours(neighbors, i + 1, curr, start, end,
                       [st EXCEPT !.visited = st.visited \cup {n},
                                  !.queue = Append(st.queue, n)])
         ELSE bfs_neighbours(neighbors, i + 1, curr, start, end, st)

bfs_neighbours(neighbors, i, curr, start, end, st) ==
    IF i > Len(neighbors) THEN st
    ELSE LET n == neighbors[i] IN
         IF curr = start /\ n = end
         THEN bfs_neighbours(neighbors, i + 1, curr, start, end, st)
         ELSE IF n = end THEN [st EXCEPT !.found = TRUE]
         ELSE IF n \notin st.visited
              THEN bfs_neighbours(neighbors, i + 1, curr, start, end,
                       [st EXCEPT !.visited = st.visited \cup {n},
                                  !.queue = Append(st.queue, n)])
         ELSE bfs_neighbours(neighbors, i + 1, curr, start, end, st)

\* The order in which `for n in neighbors` walks the set adj[curr]: every
\* adjacency set has its own.
order_of(order, curr) == IF curr \in DOMAIN order THEN order[curr] ELSE << >>

\* The while-loop over the queue.
RECURSIVE bfs_loop(_, _, _, _, _)
bfs_loop(adj, start, end, order, st) ==
    IF st.queue = << >> THEN FALSE
    ELSE LET curr == Head(st.queue)
             r == bfs_neighbours(IterateSet(adj_get(adj, curr),
                                            order_of(order, curr)), 1,
                                 curr, start, end,
                                 [st EXCEPT !.queue = Tail(st.queue)])
         IN  IF r.found THEN TRUE
             ELSE bfs_loop(adj, start, end, order, r)

\* order: for every source, the order in which its adjacency set is iterated
\* (hash order).
has_indirect_path(adj, start, end, order) ==
    bfs_loop(adj, start, end, order,
             [found |-> FALSE, queue |-> <<start>>, visited |-> {start}])

RECURSIVE prune_filter(_, _, _, _, _)

\* Variant: the two branches are swapped, the redundant edges are the ones kept.
prune_filter_keeps_redundant(adj, h, i, order, final_hierarchy) ==
    IF i > Len(h) THEN final_hierarchy
    ELSE IF has_indirect_path(adj, h[i].source, h[i].target, order)
         THEN prune_filter(adj, h, i + 1, order, Append(final_hierarchy, h[i]))
         ELSE prune_filter(adj, h, i + 1, order, final_hierarchy)

prune_filter(adj, h, i, order, final_hierarchy) ==
    IF i > Len(h) THEN final_hierarchy
    ELSE IF has_indirect_path(adj, h[i].source, h[i].target, order)
         THEN prune_filter(adj, h, i + 1, order, final_hierarchy)
         ELSE prune_filter(adj, h, i + 1, order, Append(final_hierarchy, h[i]))

\* Variant: the surviving hierarchy edges are returned in front of the others.
prune_redundant_hierarchy_hierarchy_first(edges, order) ==
    prune_filter(adj_of(edges), hierarchy_edges_of(edges), 1, order, << >>)
        \o other_edges_of(edges)

prune_redundant_hierarchy(edges, order) ==
    other_edges_of(edges)
        \o prune_filter(adj_of(edges), hierarchy_edges_of(edges), 1, order, << >>)

\* The ways the adjacency sets can be iterated: one order for each set.
RECURSIVE AdjOrdersOver(_, _)
AdjOrdersOver(adj, sources) ==
    IF sources = {} THEN {<< >>}
    ELSE LET s == CHOOSE x \in sources : TRUE
         IN  {(s :> o) @@ rest : o \in Orders(adj[s]),
                                 rest \in AdjOrdersOver(adj, sources \ {s})}

AdjOrders(edges) == AdjOrdersOver(adj_of(edges), DOMAIN adj_of(edges))

----------------------------------------------------------------------------
(* __main__ : the ingestion pipeline *)

\* id.endswith("_EX")
ends_with_EX(id) == Len(id) >= 2 /\ id[Len(id)] = "EX"

\* 1. Pre-processing: Exercise ids get the suffix "_EX".
normalize_node(n) ==
    IF n.label = "Exercise" /\ ~ends_with_EX(n.id)
    THEN [n EXCEPT !.id = Append(n.id, "EX")]
    ELSE n

normalize_nodes(ns) == [k \in 1..Len(ns) |-> normalize_node(ns[k])]

\* 3. Combine edges: first occurrence of each (source, target, relation) wins.
edge_key(e) == <<e.source, e.target, e.relation>>

RECURSIVE combine_loop(_, _, _, _)
combine_loop(all, i, seen, combined) ==
    IF i > Len(all) THEN combined
    ELSE IF edge_key(all[i]) \notin seen
         THEN combine_loop(all, i + 1, seen \cup {edge_key(all[i])},
                           Append(combined, all[i]))
         ELSE combine_loop(all, i + 1, seen, combined)

\* Variant: the generated edges are put in front of the explicit ones.
combine_edges_implicit_first(explicit, implicit) ==
    combine_loop(implicit \o explicit, 1, {}, << >>)

combine_edges(explicit, implicit) == combine_loop(explicit \o implicit, 1, {}, << >>)

\* Steps 2 to 5 on pre-processed nodes: generate, combine, prune, validate.
run_pipeline(ns, explicit, order) ==
    validate_edges(ns,
        prune_redundant_hierarchy(
            combine_edges(explicit, generate_implicit_relationships(ns)), order))

----------------------------------------------------------------------------
(* CurriculumGraphBuilder: the calls the store receives.  A call is recorded *)
(* with its arguments and the session.run calls it makes, in order.          *)

StoreCall(op, ns, es, runs) == [op |-> op, nodes |-> ns, edges |-> es, runs |-> runs]

SessionRun(query, rows) == [query |-> query, rows |-> rows]

setup_schema_runs ==
    <<SessionRun("CREATE CONSTRAINT curriculum_node_id_unique", << >>),
      SessionRun("CREATE INDEX curriculum_node_title_index", << >>)>>

ingest_nodes_runs(ns) == <<SessionRun("MERGE CurriculumNode", ns)>>

\* {k: e[k] for k in e if k not in {"source", "target", "relation", "generated"}}
relationship_props(e) ==
    [k \in DOMAIN e \ {"source", "target", "relation", "generated"} |-> e[k]]

\* [{source, target, props} for e in edges if e["relation"] == rel]
rel_edges_of(edges, rel) ==
    LET sel == SelectSeq(edges, LAMBDA e : e.relation = rel)
    IN  [k \in 1..Len(sel) |-> [source |-> sel[k].source,
                                target |-> sel[k].target,
                                props |-> relationship_props(sel[k])]]

\* for rel in ALLOWED_RELATIONS: if rel_edges: session.run(query % rel, ...)
RECURSIVE ingest_relationships_loop(_, _, _, _)
ingest_relationships_loop(edges, rels, i, runs) ==
    IF i > Len(rels) THEN runs
    ELSE LET rel_edges == rel_edges_of(edges, rels[i]) IN
         IF rel_edges # << >>
         THEN ingest_relationships_loop(edges, rels, i + 1,
                                        Append(runs, SessionRun(rels[i], rel_edges)))
         ELSE ingest_relationships_loop(edges, rels, i + 1, runs)

\* The relations that have a batch.  A relation without edges makes no
\* session.run, so of the iteration order of ALLOWED_RELATIONS only the
\* relative order of these relations shows.
sent_relations(edges) ==
    {rel \in ALLOWED_RELATIONS : \E k \in 1..Len(edges) : edges[k].relation = rel}

\* order: the order in which the set ALLOWED_RELATIONS is iterated.
ingest_relationships(edges, order) ==
    ingest_relationships_loop(edges, IterateSet(ALLOWED_RELATIONS, order), 1, << >>)

----------------------------------------------------------------------------
(* __main__, continued: the steps of the run *)

PreProcess ==
    /\ pc = "preprocess"
    /\ nodes' = normalize_nodes(nodes)
    /\ pc' = "generate"
    /\ UNCHANGED <<explicit_edges, validationMode, implicit_edges, combined_edges,
                   pruned_edges, final_edges, store, error>>
    /\ UNCHANGED harnessVars

GenerateImplicit ==
    /\ pc = "generate"
    /\ implicit_edges' = generate_implicit_relationships(nodes)
    /\ pc' = "combine"
    /\ UNCHANGED <<nodes, explicit_edges, validationMode, combined_edges,
                   pruned_edges, final_edges, store, error>>
    /\ UNCHANGED harnessVars

Combine ==
    /\ pc = "combine"
    /\ combined_edges' = combine_edges(explicit_edges, implicit_edges)
    /\ pc' = "prune"
    /\ UNCHANGED <<nodes, explicit_edges, validationMode, implicit_edges,
                   pruned_edges, final_edges, store, error>>
    /\ UNCHANGED harnessVars

Prune ==
    /\ pc = "prune"
    /\ \E order \in AdjOrders(combined_edges) :
           pruned_edges' = prune_redundant_hierarchy(combined_edges, order)
    /\ pc' = "validate"
    /\ UNCHANGED <<nodes, explicit_edges, validationMode, implicit_edges,
                   combined_edges, final_edges, store, error>>
    /\ UNCHANGED harnessVars

\* 5. final_edges = validate_edges(nodes, pruned_edges): the call takes no
\* mode, and a ValueError goes to the except clause.
Validate ==
    /\ pc = "validate"
    /\ LET r == validate_edges(nodes, pruned_edges) IN
         IF r.raised
         THEN /\ error' = r
              /\ pc' = "except"
              /\ UNCHANGED final_edges
         ELSE /\ final_edges' = r.value
              /\ pc' = "setup_schema"
              /\ UNCHANGED error
    /\ UNCHANGED <<nodes, explicit_edges, validationMode, implicit_edges,
                   combined_edges, pruned_edges, store>>
    /\ UNCHANGED harnessVars

\* The exception the driver raises from session.run when the store fails.
StoreError == RaisedOther("DriverError")

\* A call of the builder that makes the session.run calls `runs` in order:
\* either all of them succeed and the run goes on, or one of them raises,
\* the runs before it have reached the store and the exception propagates
\* to the except clause of __main__.
BuilderCall(op, ns, es, runs, next) ==
    \/ /\ store' = Append(store, StoreCall(op, ns, es, runs))
       /\ pc' = next
       /\ UNCHANGED error
    \/ \E sent \in 0..(Len(runs) - 1) :
           /\ store' = Append(store, StoreCall(op, ns, es, SubSeq(runs, 1, sent)))
           /\ pc' = "except"
           /\ error' = StoreError

SetupSchema ==
    /\ pc = "setup_schema"
    /\ BuilderCall("setup_schema", << >>, << >>, setup_schema_runs, "ingest_nodes")
    /\ UNCHANGED <<nodes, explicit_edges, validationMode, implicit_edges,
                   combined_edges, pruned_edges, final_edges>>
    /\ UNCHANGED harnessVars

IngestNodes ==
    /\ pc = "ingest_nodes"
    /\ BuilderCall("ingest_nodes", nodes, << >>, ingest_nodes_runs(nodes),
                   "ingest_relationships")
    /\ UNCHANGED <<nodes, explicit_edges, validationMode, implicit_edges,
                   combined_edges, pruned_edges, final_edges>>
    /\ UNCHANGED harnessVars

IngestRelationships ==
    /\ pc = "ingest_relationships"
    /\ \E order \in Orders(sent_relations(final_edges)) :
           BuilderCall("ingest_relationships", << >>, final_edges,
                       ingest_relationships(final_edges, order), "finally")
    /\ UNCHANGED <<nodes, explicit_edges, validationMode, implicit_edges,
                   combined_edges, pruned_edges, final_edges>>
    /\ UNCHANGED harnessVars

\* except Exception as e: logger.error(...)
Except ==
    /\ pc = "except"
    /\ pc' = "finally"
    /\ UNCHANGED <<nodes, explicit_edges, validationMode, implicit_edges,
                   combined_edges, pruned_edges, final_edges, store, error>>
    /\ UNCHANGED harnessVars

\* finally: builder.close()
Close ==
    /\ pc = "finally"
    /\ pc' = "closed"
    /\ UNCHANGED <<nodes, explicit_edges, validationMode, implicit_edges,
                   combined_edges, pruned_edges, final_edges, store, error>>
    /\ UNCHANGED harnessVars

\* Inputs of the pipeline: the contents of curriculum1.json and the mode asked for.
A == <<"A">>

A_1 == <<"A", "1">>

B == <<"B">>

C == <<"C">>

X == <<"X">>

PipelineNodes == {Node(i, l) : i \in {A, A_1}, l \in {"Topic", "Exercise"}}

\* Explicit edges of the input: containment and prerequisite edges between
\* the nodes and an id X that no node has, an edge of an unknown relation,
\* and an edge that carries a property.
PipelineEdges ==
    {Edge(p[1], p[2], "HAS_PART", FALSE) :
        p \in {<<A, A_1>>, <<A, X>>, <<X, A_1>>}}
    \cup {Edge(p[1], p[2], "REQUIRES", FALSE) :
        p \in {<<A, A_1>>, <<A_1, A>>, <<A, A>>}}
    \cup {Edge(X, A, "FOO", FALSE)}
    \cup {WeightedEdge(A, A_1, "HAS_PART", FALSE, "high")}

HarnessIdle ==
    /\ arg_nodes = << >>
    /\ arg_edges = << >>
    /\ call = "none"
    /\ ret = NoOutcome
    /\ frame = IdleFrame
    /\ arg_toc = << >>
    /\ frames_left = 0

Init ==
    /\ pc = "preprocess"
    /\ nodes \in SeqsUpTo(PipelineNodes, MaxNodes)
    /\ explicit_edges \in SeqsUpTo(PipelineEdges, MaxExplicit)
    /\ validationMode \in {"strict", "lenient"}
    /\ implicit_edges = << >>
    /\ combined_edges = << >>
    /\ pruned_edges = << >>
    /\ final_edges = << >>
    /\ store = << >>
    /\ error = NoOutcome
    /\ HarnessIdle

Next ==
    \/ PreProcess
    \/ GenerateImplicit
    \/ Combine
    \/ Prune
    \/ Validate
    \/ SetupSchema
    \/ IngestNodes
    \/ IngestRelationships
    \/ Except
    \/ Close

Spec == Init /\ [][Next]_vars

----------------------------------------------------------------------------
(* Function harness: one call of a function on inputs drawn from bounded sets *)

PipelineIdle ==
    /\ pc = "idle"
    /\ nodes = << >>
    /\ explicit_edges = << >>
    /\ implicit_edges = << >>
    /\ combined_edges = << >>
    /\ pruned_edges = << >>
    /\ final_edges = << >>
    /\ store = << >>
    /\ error = NoOutcome

\* validate_edges(nodes, edges), and validate_edges(nodes,
\* prune_redundant_hierarchy(edges)) as the pipeline composes them.
ValidateNodes == {Node(A, "Topic"), Node(B, "Topic")}

ValidateEdges ==
    {Edge(s, t, r, FALSE) : s \in {A, B}, t \in {A, B},
                            r \in ALLOWED_RELATIONS \cup {"FOO"}}

InitValidate ==
    /\ PipelineIdle
    /\ validationMode \in {"strict", "lenient"}
    /\ arg_nodes \in SeqsUpTo(ValidateNodes, MaxNodes)
    /\ arg_edges \in SeqsUpTo(ValidateEdges, MaxValidateEdges)
    /\ call = "none"
    /\ ret = NoOutcome
    /\ frame = IdleFrame
    /\ arg_toc = << >>
    /\ frames_left = 0

CallValidateEdges ==
    /\ call = "none"
    /\ call' = "validate_edges"
    /\ ret' = validate_edges(arg_nodes, arg_edges)
    /\ UNCHANGED <<arg_nodes, arg_edges, arg_toc, frames_left, frame>>
    /\ UNCHANGED pipelineVars

CallPruneThenValidate ==
    /\ call = "none"
    /\ call' = "prune_then_validate"
    /\ \E order \in AdjOrders(arg_edges) :
           ret' = validate_edges(arg_nodes, prune_redundant_hierarchy(arg_edges, order))
    /\ UNCHANGED <<arg_nodes, arg_edges, arg_toc, frames_left, frame>>
    /\ UNCHANGED pipelineVars

NextValidate == CallValidateEdges \/ CallPruneThenValidate

SpecValidate == InitValidate /\ [][NextValidate]_vars

\* The nested calls the interpreter allows when validate_no_cycles is
\* entered: set by the depth of the caller, anything up to the recursion
\* limit.  With fewer than two no search can start.
FramesLeft == 2..MaxFramesLeft

\* validate_no_cycles(edges)
CycleEdges ==
    {Edge(s, t, "REQUIRES", FALSE) : s \in {A, B, C}, t \in {A, B, C}}
    \cup {Edge(p[1], p[2], r, FALSE) :
            p \in {<<A, A>>, <<A, B>>, <<B, A>>, <<C, A>>},
            r \in {"HAS_PART", "HAS_EXERCISE", "RELATED_TO"}}

InitCycles ==
    /\ PipelineIdle
    /\ validationMode = "lenient"
    /\ arg_nodes = << >>
    /\ arg_edges \in SeqsUpTo(CycleEdges, MaxCycleEdges)
    /\ call = "none"
    /\ ret = NoOutcome
    /\ frame = IdleFrame
    /\ arg_toc = << >>
    /\ frames_left = 0

CallValidateNoCycles ==
    /\ call = "none"
    /\ call' = "validate_no_cycles"
    /\ \E order \in Orders(requires_all_nodes(arg_edges)), limit \in FramesLeft :
           /\ frames_left' = limit
           /\ ret' = validate_no_cycles(arg_edges, order, limit)
    /\ UNCHANGED <<arg_nodes, arg_edges, arg_toc, frame>>
    /\ UNCHANGED pipelineVars

NextCycles == CallValidateNoCycles

SpecCycles == InitCycles /\ [][NextCycles]_vars

\* prune_redundant_hierarchy(edges)
PruneEdges ==
    ({Edge(s, t, "HAS_PART", FALSE) : s \in {A, B, C}, t \in {A, B, C}}
        \ {Edge(C, C, "HAS_PART", FALSE)})
    \cup {Edge(A, B, "HAS_EXERCISE", FALSE), Edge(B, C, "HAS_EXERCISE", TRUE),
          Edge(A, C, "REQUIRES", FALSE), Edge(B, A, "FOO", FALSE)}

InitPrune ==
    /\ PipelineIdle
    /\ validationMode = "lenient"
    /\ arg_nodes = << >>
    /\ arg_edges \in SeqsUpTo(PruneEdges, MaxPruneEdges)
    /\ call = "none"
    /\ ret = NoOutcome
    /\ frame = IdleFrame
    /\ arg_toc = << >>
    /\ frames_left = 0

CallPrune ==
    /\ call = "none"
    /\ call' = "prune_redundant_hierarchy"
    /\ \E order \in AdjOrders(arg_edges) :
           ret' = Returned(prune_redundant_hierarchy(arg_edges, order))
    /\ UNCHANGED <<arg_nodes, arg_edges, arg_toc, frames_left, frame>>
    /\ UNCHANGED pipelineVars

NextPrune == CallPrune

SpecPrune == InitPrune /\ [][NextPrune]_vars

\* generate_implicit_relationships(nodes)
A_1_1 == <<"A", "1", "1">>

GenerateNodes == {Node(i, l) : i \in {A, A_1, A_1_1, B}, l \in {"Topic", "Exercise"}}

InitGenerate ==
    /\ PipelineIdle
    /\ validationMode = "lenient"
    /\ arg_nodes \in SeqsUpTo(GenerateNodes, MaxGenerateNodes)
    /\ arg_edges = << >>
    /\ call = "none"
    /\ ret = NoOutcome
    /\ frame = IdleFrame
    /\ arg_toc = << >>
    /\ frames_left = 0

CallGenerateImplicit ==
    /\ call = "none"
    /\ call' = "generate_implicit_relationships"
    /\ ret' = Returned(generate_implicit_relationships(arg_nodes))
    /\ UNCHANGED <<arg_nodes, arg_edges, arg_toc, frames_left, frame>>
    /\ UNCHANGED pipelineVars

NextGenerate == CallGenerateImplicit

SpecGenerate == InitGenerate /\ [][NextGenerate]_vars

\* __main__, step 1 (pre-processing) on its own
A_EX == <<"A", "EX">>

NormalizeNodes == {Node(i, l) : i \in {A, A_EX, A_1, B}, l \in {"Topic", "Exercise"}}

InitNormalize ==
    /\ PipelineIdle
    /\ validationMode = "lenient"
    /\ arg_nodes \in SeqsUpTo(NormalizeNodes, MaxNormalizeNodes)
    /\ arg_edges = << >>
    /\ call = "none"
    /\ ret = NoOutcome
    /\ frame = IdleFrame
    /\ arg_toc = << >>
    /\ frames_left = 0

CallNormalize ==
    /\ call = "none"
    /\ call' = "normalize_nodes"
    /\ ret' = Returned(normalize_nodes(arg_nodes))
    /\ UNCHANGED <<arg_nodes, arg_edges, arg_toc, frames_left, frame>>
    /\ UNCHANGED pipelineVars

NextNormalize == CallNormalize

SpecNormalize == InitNormalize /\ [][NextNormalize]_vars

----------------------------------------------------------------------------
(* The traversals, one loop iteration or one call per step *)

TraverseEdges ==
    {Edge(p[1], p[2], "HAS_PART", FALSE) :
        p \in {<<A, A>>, <<A, B>>, <<B, A>>, <<B, C>>, <<A, C>>}}
    \cup {Edge(p[1], p[2], "REQUIRES", FALSE) :
        p \in {<<A, A>>, <<A, B>>, <<B, A>>, <<B, C>>}}

InitTraverse ==
    /\ PipelineIdle
    /\ validationMode = "lenient"
    /\ arg_nodes = << >>
    /\ arg_edges \in SeqsUpTo(TraverseEdges, MaxTraverseEdges)
    /\ call = "none"
    /\ ret = NoOutcome
    /\ frame = IdleFrame
    /\ arg_toc = << >>
    /\ frames_left = 0

\* One iteration of `while queue`: pop the head, walk its neighbours.
bfs_iteration(adj, start, end, order, st) ==
    bfs_neighbours(IterateSet(adj_get(adj, Head(st.queue)),
                              order_of(order, Head(st.queue))), 1,
                   Head(st.queue), start, end,
                   [st EXCEPT !.queue = Tail(st.queue)])

\* prune_redundant_hierarchy is entered: the edges are split, adj is built.
StartPrune ==
    /\ call = "none"
    /\ call' = "prune_redundant_hierarchy"
    /\ \E order \in AdjOrders(arg_edges) :
           frame' = [IdleFrame EXCEPT !.pc = "filter", !.order = order, !.i = 1]
    /\ UNCHANGED <<arg_nodes, arg_edges, arg_toc, frames_left, ret>>
    /\ UNCHANGED pipelineVars

\* `for e in hierarchy_edges`: the next edge starts has_indirect_path(u, v),
\* the end of the list returns other_edges + final_hierarchy.
FilterNext ==
    /\ frame.pc = "filter"
    /\ LET h == hierarchy_edges_of(arg_edges) IN
       IF frame.i > Len(h)
       THEN /\ frame' = [frame EXCEPT !.pc = "done"]
            /\ ret' = Returned(other_edges_of(arg_edges) \o frame.kept)
       ELSE /\ frame' = [frame EXCEPT !.pc = "bfs",
                                      !.queue = <<h[frame.i].source>>,
                                      !.visited = {h[frame.i].source}]
            /\ UNCHANGED ret
    /\ UNCHANGED <<arg_nodes, arg_edges, arg_toc, frames_left, call>>
    /\ UNCHANGED pipelineVars

\* `while queue`: one iteration; finding end drops the edge.
BfsIterate ==
    /\ frame.pc = "bfs"
    /\ frame.queue # << >>
    /\ LET e == hierarchy_edges_of(arg_edges)[frame.i]
           r == bfs_iteration(adj_of(arg_edges), e.source, e.target, frame.order,
                              [found |-> FALSE, queue |-> frame.queue,
                               visited |-> frame.visited])
       IN  IF r.found
           THEN frame' = [frame EXCEPT !.pc = "filter", !.i = frame.i + 1,
                                       !.queue = << >>, !.visited = {}]
           ELSE frame' = [frame EXCEPT !.queue = r.queue, !.visited = r.visited]
    /\ UNCHANGED <<arg_nodes, arg_edges, arg_toc, frames_left, call, ret>>
    /\ UNCHANGED pipelineVars

\* The queue is empty: has_indirect_path returns False, the edge is kept.
BfsExhausted ==
    /\ frame.pc = "bfs"
    /\ frame.queue = << >>
    /\ frame' = [frame EXCEPT !.pc = "filter", !.i = frame.i + 1,
                              !.kept = Append(frame.kept,
                                              hierarchy_edges_of(arg_edges)[frame.i]),
                              !.visited = {}]
    /\ UNCHANGED <<arg_nodes, arg_edges, arg_toc, frames_left, call, ret>>
    /\ UNCHANGED pipelineVars

\* validate_no_cycles is entered: graph and all_nodes are built.
StartCycles ==
    /\ call = "none"
    /\ call' = "validate_no_cycles"
    /\ \E order \in Orders(requires_all_nodes(arg_edges)) :
           frame' = [IdleFrame EXCEPT
                        !.pc = "roots", !.i = 1,
                        !.roots = IterateSet(requires_all_nodes(arg_edges), order)]
    /\ frames_left' \in FramesLeft
    /\ UNCHANGED <<arg_nodes, arg_edges, arg_toc, ret>>
    /\ UNCHANGED pipelineVars

\* The call dfs(node) and its first lines: the call, or the call of
\* visited.add inside it, fails ("overflow") when it would nest deeper than
\* the interpreter allows, "true" and "false" are returned at once, otherwise
\* the node is marked and its neighbours are walked.
dfs_enter(f, node, limit) ==
    IF Len(f.calls) + 1 > limit THEN "overflow"
    ELSE IF node \in f.stack THEN "true"
    ELSE IF node \in f.visited THEN "false"
    ELSE IF Len(f.calls) + 2 > limit THEN "overflow"
    ELSE "entered"

\* visited.add(node); stack.add(node); a call frame (node, next neighbour).
dfs_push(f, node) ==
    [f EXCEPT !.pc = "dfs",
              !.visited = f.visited \cup {node},
              !.stack = f.stack \cup {node},
              !.calls = Append(f.calls, [node |-> node, next |-> 1])]

\* `for n in all_nodes: if dfs(n): raise`; the end of the loop returns.
RootsNext ==
    /\ frame.pc = "roots"
    /\ IF frame.i > Len(frame.roots)
       THEN /\ frame' = [frame EXCEPT !.pc = "done"]
            /\ ret' = Returned(<< >>)
       ELSE LET n == frame.roots[frame.i] IN
            CASE dfs_enter(frame, n, frames_left) = "overflow" ->
                    /\ frame' = [frame EXCEPT !.pc = "done"]
                    /\ ret' = RecursionError
              [] dfs_enter(frame, n, frames_left) = "true" ->
                    /\ frame' = [frame EXCEPT !.pc = "done"]
                    /\ ret' = Raised("", n)
              [] dfs_enter(frame, n, frames_left) = "false" ->
                    /\ frame' = [frame EXCEPT !.i = frame.i + 1]
                    /\ UNCHANGED ret
              [] OTHER ->
                    /\ frame' = dfs_push(frame, n)
                    /\ UNCHANGED ret
    /\ UNCHANGED <<arg_nodes, arg_edges, arg_toc, frames_left, call>>
    /\ UNCHANGED pipelineVars

\* `for nei in graph.get(node, []): if dfs(nei): return True` in the
\* innermost call: a neighbour on the stack makes every caller return True
\* and the root loop raise; a call beyond the recursion limit raises through
\* every caller.
DfsNeighbour ==
    /\ frame.pc = "dfs"
    /\ LET top == frame.calls[Len(frame.calls)]
           neis == graph_get(requires_graph(arg_edges), top.node)
           advanced == [frame EXCEPT !.calls[Len(frame.calls)].next = top.next + 1]
       IN  /\ top.next <= Len(neis)
           /\ CASE dfs_enter(frame, neis[top.next], frames_left) = "overflow" ->
                      /\ frame' = [advanced EXCEPT !.pc = "done"]
                      /\ ret' = RecursionError
                [] dfs_enter(frame, neis[top.next], frames_left) = "true" ->
                      /\ frame' = [advanced EXCEPT !.pc = "done"]
                      /\ ret' = Raised("", frame.roots[frame.i])
                [] dfs_enter(frame, neis[top.next], frames_left) = "false" ->
                      /\ frame' = advanced
                      /\ UNCHANGED ret
                [] OTHER ->
                      /\ frame' = dfs_push(advanced, neis[top.next])
                      /\ UNCHANGED ret
    /\ UNCHANGED <<arg_nodes, arg_edges, arg_toc, frames_left, call>>
    /\ UNCHANGED pipelineVars

\* The neighbours are exhausted: stack.remove(node); return False.
DfsReturn ==
    /\ frame.pc = "dfs"
    /\ LET top == frame.calls[Len(frame.calls)]
           neis == graph_get(requires_graph(arg_edges), top.node)
           popped == [frame EXCEPT !.stack = frame.stack \ {top.node},
                                   !.calls = SubSeq(frame.calls, 1, Len(frame.calls) - 1)]
       IN  /\ top.next > Len(neis)
           /\ frame' = IF Len(frame.calls) = 1
                       THEN [popped EXCEPT !.pc = "roots", !.i = frame.i + 1]
                       ELSE popped
    /\ UNCHANGED <<arg_nodes, arg_edges, arg_toc, frames_left, call, ret>>
    /\ UNCHANGED pipelineVars

NextTraverse ==
    \/ StartPrune
    \/ FilterNext
    \/ BfsIterate
    \/ BfsExhausted
    \/ StartCycles
    \/ RootsNext
    \/ DfsNeighbour
    \/ DfsReturn

\* A call that has started runs on: the interpreter keeps taking steps.
SpecTraverse == InitTraverse /\ [][NextTraverse]_vars /\ WF_vars(NextTraverse)

----------------------------------------------------------------------------
(* json_builder.build_curriculum_from_pdf: nodes and relationships from the  *)
(* table of contents.  An entry is its level and whether the text of its     *)
(* pages is shorter than the content threshold.                              *)

TocEntry(level, structural) == [level |-> level, structural |-> structural]

\* f"NODE_{i:04d}", i the 0-based index of the entry in the TOC.
toc_node_id(i) == <<"NODE", i>>

toc_label(e) ==
    IF e.structural
    THEN (IF e.level = 1 THEN "Unit" ELSE "Container")
    ELSE (IF e.level > 1 THEN "Topic" ELSE "Chapter")

\* Variant: the entries of deeper levels are left in the dict.
dict_set_and_clear_keeps_deeper(d, level, id) ==
    [l \in DOMAIN d \cup {level} |-> IF l = level THEN id ELSE d[l]]

\* d[level] = id; then every key k > level is deleted.
dict_set_and_clear(d, level, id) ==
    [l \in {k \in DOMAIN d : k <= level} \cup {level} |->
        IF l = level THEN id ELSE d[l]]

\* for n in reversed(nodes): if n["id"] == parent_id: append the child; break
append_child(ns, parent_id, child_id) ==
    LET ks == {k \in 1..Len(ns) : ns[k].id = parent_id}
    IN  IF ks = {} THEN ns
        ELSE LET last == CHOOSE k \in ks : \A j \in ks : j <= k
             IN  [ns EXCEPT ![last].children = Append(ns[last].children, child_id)]

\* The loop over the TOC; k is the 1-based position, st the loop's locals.
RECURSIVE toc_loop(_, _, _)
toc_loop(toc, k, st) ==
    IF k > Len(toc) THEN st
    ELSE LET level == toc[k].level
             node_id == toc_node_id(k - 1)
         IN  IF level > 3 THEN toc_loop(toc, k + 1, st)
             ELSE LET linked ==
                          IF (level - 1) \in DOMAIN st.hierarchy_stack
                          THEN append_child(st.nodes, st.hierarchy_stack[level - 1], node_id)
                          ELSE st.nodes
                      new_node ==
                          [id |-> node_id, label |-> toc_label(toc[k]),
                           children |-> << >>,
                           prerequisites |->
                               IF level \in DOMAIN st.sibling_tracker
                               THEN <<st.sibling_tracker[level]>> ELSE << >>]
                  IN  toc_loop(toc, k + 1,
                          [nodes |-> Append(linked, new_node),
                           hierarchy_stack |->
                               dict_set_and_clear(st.hierarchy_stack, level, node_id),
                           sibling_tracker |->
                               dict_set_and_clear(st.sibling_tracker, level, node_id)])

\* Flatten: per node its HAS_PART edges, then its REQUIRES edges.
TocRelationship(s, t, r) == [source |-> s, target |-> t, relation |-> r]

RECURSIVE flatten_relationships(_, _)
flatten_relationships(ns, k) ==
    IF k > Len(ns) THEN << >>
    ELSE [c \in 1..Len(ns[k].children) |->
              TocRelationship(ns[k].id, ns[k].children[c], "HAS_PART")]
         \o [q \in 1..Len(ns[k].prerequisites) |->
              TocRelationship(ns[k].prerequisites[q], ns[k].id, "REQUIRES")]
         \o flatten_relationships(ns, k + 1)

\* del node["children"]; del node["prerequisites"]
flattened_nodes(ns) == [k \in 1..Len(ns) |-> Node(ns[k].id, ns[k].label)]

build_curriculum_from_pdf(toc) ==
    LET st == toc_loop(toc, 1, [nodes |-> << >>, hierarchy_stack |-> << >>,
                                sibling_tracker |-> << >>])
    IN  [nodes |-> flattened_nodes(st.nodes),
         relationships |-> flatten_relationships(st.nodes, 1)]

TocEntries == {TocEntry(l, b) : l \in 1..4, b \in BOOLEAN}

InitToc ==
    /\ PipelineIdle
    /\ validationMode = "lenient"
    /\ arg_nodes = << >>
    /\ arg_edges = << >>
    /\ call = "none"
    /\ ret = NoOutcome
    /\ frame = IdleFrame
    /\ arg_toc \in SeqsUpTo(TocEntries, MaxTocEntries)
    /\ frames_left = 0

CallBuildCurriculum ==
    /\ call = "none"
    /\ call' = "build_curriculum_from_pdf"
    /\ ret' = Returned(build_curriculum_from_pdf(arg_toc))
    /\ UNCHANGED <<arg_nodes, arg_edges, arg_toc, frames_left, frame>>
    /\ UNCHANGED pipelineVars

NextToc == CallBuildCurriculum

SpecToc == InitToc /\ [][NextToc]_vars

----------------------------------------------------------------------------
(* Graph notions used to state the properties (independent of the code's   *)
(* traversals)                                                             *)

\* The (source, target) pairs of the edges whose relation is in rels.
RelPairs(edges, rels) ==
    {<<edges[i].source, edges[i].target>> :
        i \in {j \in 1..Len(edges) : edges[j].relation \in rels}}

RECURSIVE TransitiveClosure(_)
TransitiveClosure(R) ==
    LET R2 == R \cup {<<z[1][1], z[2][2]>> : z \in {w \in R \X R : w[1][2] = w[2][1]}}
    IN  IF R2 = R THEN R ELSE TransitiveClosure(R2)

\* A node lies on a cycle of R when it reaches itself in one or more steps.
OnCycle(R, n) == <<n, n>> \in TransitiveClosure(R)

HasCycle(R) == \E p \in R : OnCycle(R, p[1])

\* v is reached from x along a simple path that avoids the nodes in seen.
RECURSIVE SimpleReach(_, _, _, _)
SimpleReach(R, x, v, seen) ==
    \/ <<x, v>> \in R
    \/ \E p \in R : /\ p[1] = x
                    /\ p[2] \notin seen
                    /\ p[2] # v
                    /\ SimpleReach(R, p[2], v, seen \cup {p[2]})

\* A directed path u -> y -> ... -> v that repeats no node (a simple cycle
\* when u = v) and whose first hop is not the direct edge u -> v; such a
\* path has length at least 2.
AlternatePath(R, u, v) ==
    \E p \in R : /\ p[1] = u
                 /\ p[2] # v
                 /\ p[2] # u
                 /\ SimpleReach(R, p[2], v, {u, p[2]})

IsDangling(ns, e) ==
    LET ids == {ns[k].id : k \in 1..Len(ns)}
    IN  e.source \notin ids \/ e.target \notin ids

StoreOps == {store[i].op : i \in 1..Len(store)}

\* The run has gone past the validate step.
PastValidate == pc \in {"setup_schema", "ingest_nodes", "ingest_relationships",
                        "except", "finally", "closed"}

----------------------------------------------------------------------------
(* C1 .. C10 *)

\* C1: the edge set passed to ingest_relationships has an acyclic REQUIRES
\* subgraph; a run whose final edge set has a REQUIRES cycle never reaches
\* the store.  (Violated: __main__ never calls validate_no_cycles.)
C1_StoredRequiresAcyclic ==
    \A i \in 1..Len(store) :
        store[i].op = "ingest_relationships"
            => ~HasCycle(RelPairs(store[i].edges, {"REQUIRES"}))

\* C2: no store operation (setup_schema, ingest_nodes, ingest_relationships)
\* happens unless validate_edges has passed and the cycle check passes on
\* the final edges.  (Violated through C1: the cycle check is never run.)
C2_NoStoreBeforeChecksPass ==
    store # << >> =>
        /\ ~validate_edges(nodes, pruned_edges).raised
        /\ \A order \in Orders(requires_all_nodes(final_edges)) :
               ~validate_no_cycles(final_edges, order,
                                   Cardinality(requires_all_nodes(final_edges)) + 1).raised

\* C3: an edge list holding an edge whose relation is not one of HAS_PART,
\* HAS_EXERCISE, REQUIRES, RELATED_TO makes validate_edges raise and return
\* no edge list, at any position, with any endpoints, in any mode, also
\* after a pass through prune_redundant_hierarchy.
C3_UnknownRelationRaises ==
    (/\ call \in {"validate_edges", "prune_then_validate"}
     /\ \E i \in 1..Len(arg_edges) :
            arg_edges[i].relation
                \notin {"HAS_PART", "HAS_EXERCISE", "REQUIRES", "RELATED_TO"})
        => (ret.raised /\ ret.value = << >>)

\* An unknown relation on a dangling edge in second position, behind a
\* dangling edge of an allowed relation, after pruning, in strict mode.
C3_Witness ==
    /\ call = "prune_then_validate"
    /\ validationMode = "strict"
    /\ Len(arg_edges) = 2
    /\ arg_edges[1].relation = "HAS_PART"
    /\ IsDangling(arg_nodes, arg_edges[1])
    /\ arg_edges[2].relation = "FOO"
    /\ IsDangling(arg_nodes, arg_edges[2])
    /\ arg_nodes # << >>
    /\ ret.raised
    /\ ret.relation = "FOO"

\* C4: in strict mode an edge whose source or target is no node id makes
\* validation fail and aborts the run: no edge list, no store call.
\* (Violated: validate_edges has no strict mode.)
C4_StrictAbortsOnDangling ==
    (/\ validationMode = "strict"
     /\ PastValidate
     /\ \E i \in 1..Len(pruned_edges) : IsDangling(nodes, pruned_edges[i]))
        => (error.raised /\ store = << >> /\ final_edges = << >>)

\* C5: in lenient mode, on an edge list whose relations are all allowed,
\* validate_edges returns exactly the subsequence of the edges whose source
\* and target are both node ids, in input order and unchanged, and leaves
\* the node list as it was.
C5_LenientFiltersDangling ==
    [][(/\ call = "none"
        /\ call' = "validate_edges"
        /\ validationMode = "lenient"
        /\ \A i \in 1..Len(arg_edges) : arg_edges[i].relation \in ALLOWED_RELATIONS)
          => /\ ~ret'.raised
             /\ ret'.value = SelectSeq(arg_edges, LAMBDA e : ~IsDangling(arg_nodes, e))
             /\ arg_nodes' = arg_nodes]_vars

\* A dangling edge in front of a kept edge is dropped.
C5_Witness ==
    /\ call = "validate_edges"
    /\ validationMode = "lenient"
    /\ ~ret.raised
    /\ Len(arg_edges) = 2
    /\ IsDangling(arg_nodes, arg_edges[1])
    /\ ~IsDangling(arg_nodes, arg_edges[2])
    /\ ret.value = <<arg_edges[2]>>

RemoveAt(seq, i) == SubSeq(seq, 1, i - 1) \o SubSeq(seq, i + 1, Len(seq))

\* The run passed validation and has an output edge list.
HasOutput ==
    \/ pc \in {"setup_schema", "ingest_nodes", "ingest_relationships"}
    \/ (pc \in {"finally", "closed"} /\ ~error.raised)

\* C6: in a lenient run that produces an output, an explicit edge that names
\* an id no node has is absent from the output, and every edge that would be
\* in the output without that edge in the input is still in the output.
\* (Violated: pruning runs before validation, so dangling edges serve as
\* hops that make a valid edge redundant.)
C6_DanglingEdgeRemovesOnlyItself ==
    (validationMode = "lenient" /\ HasOutput) =>
        \A i \in 1..Len(explicit_edges) :
            IsDangling(nodes, explicit_edges[i]) =>
                /\ explicit_edges[i] \notin Range(final_edges)
                /\ \A order \in AdjOrders(combined_edges) :
                       LET without == run_pipeline(nodes, RemoveAt(explicit_edges, i), order)
                       IN  ~without.raised => Range(without.value) \subseteq Range(final_edges)

\* C7: validate_no_cycles raises exactly when the REQUIRES edges of its
\* input contain a cycle (self-loops included); edges of other relations
\* neither form nor complete a cycle.  (Violated: on an acyclic chain of
\* REQUIRES edges longer than the calls the interpreter still lets nest, the
\* recursive dfs is stopped by RecursionError.)
C7_RaisesIffRequiresCycle ==
    call = "validate_no_cycles" =>
        (ret.raised <=> HasCycle(RelPairs(arg_edges, {"REQUIRES"})))

\* C8: the node id carried by the error of validate_no_cycles lies on a
\* REQUIRES cycle.  (Violated: the id reported is the root the search
\* started from, which may only lead to a cycle.)
C8_ReportedNodeOnCycle ==
    (call = "validate_no_cycles" /\ ret.raised /\ ret.exception = "ValueError")
        => OnCycle(RelPairs(arg_edges, {"REQUIRES"}), ret.node)

\* C9: among the containment edges of the output of
\* prune_redundant_hierarchy there is no edge (u, v) with a directed path
\* of length 2 or more from u to v through containment edges of the output.
C9_OutputHasNoShortcut ==
    call = "prune_redundant_hierarchy" =>
        LET R == RelPairs(ret.value, hierarchy_types)
        IN  \A p \in R : ~AlternatePath(R, p[1], p[2])

\* An edge was removed and containment edges remain.
C9_Witness ==
    /\ call = "prune_redundant_hierarchy"
    /\ Len(ret.value) < Len(arg_edges)
    /\ RelPairs(ret.value, hierarchy_types) # {}

\* C10: prune_redundant_hierarchy drops a containment edge (u, v) exactly
\* when, in the containment graph of the input, v is reached from u by a
\* path whose first hop is not the direct edge u -> v.
C10_DroppedIffAlternatePath ==
    call = "prune_redundant_hierarchy" =>
        LET R == RelPairs(arg_edges, hierarchy_types)
        IN  \A i \in 1..Len(arg_edges) :
                arg_edges[i].relation \in hierarchy_types =>
                    (arg_edges[i] \notin Range(ret.value)
                        <=> AlternatePath(R, arg_edges[i].source, arg_edges[i].target))

\* A -> B, B -> C, A -> C: A -> C is removed, A -> B and B -> C are kept.
C10_Witness ==
    /\ call = "prune_redundant_hierarchy"
    /\ arg_edges = <<Edge(A, B, "HAS_PART", FALSE), Edge(B, C, "HAS_EXERCISE", TRUE),
                     Edge(A, C, "HAS_PART", FALSE)>>
    /\ ret.value = <<Edge(A, B, "HAS_PART", FALSE), Edge(B, C, "HAS_EXERCISE", TRUE)>>

----------------------------------------------------------------------------
(* C11 .. C20 *)

\* y is reached from x in one or more steps of R.
Reaches(R, x, y) == <<x, y>> \in TransitiveClosure(R)

\* C11: for every pair of nodes (x, y), y is reachable from x through the
\* containment edges of the output of prune_redundant_hierarchy exactly
\* when it is through those of the input, cyclic containment graphs
\* included.  (Violated: on a containment cycle two edges can each be the
\* other's indirect path, and both are removed.)
C11_ReachabilityPreserved ==
    call = "prune_redundant_hierarchy" =>
        TransitiveClosure(RelPairs(ret.value, hierarchy_types))
            = TransitiveClosure(RelPairs(arg_edges, hierarchy_types))

\* C12: in the output of prune_redundant_hierarchy every node is the target
\* of containment edges from at most one source node, and the containment
\* edges have no cycle.  (Violated: only shortcut edges are removed.)
C12_OutputIsForest ==
    call = "prune_redundant_hierarchy" =>
        LET R == RelPairs(ret.value, hierarchy_types)
        IN  /\ \A p \in R, q \in R : p[2] = q[2] => p[1] = q[1]
            /\ ~HasCycle(R)

\* s is t with some elements left out.
RECURSIVE IsSubsequence(_, _)
IsSubsequence(s, t) ==
    IF s = << >> THEN TRUE
    ELSE IF t = << >> THEN FALSE
    ELSE IF Head(s) = Head(t) THEN IsSubsequence(Tail(s), Tail(t))
    ELSE IsSubsequence(s, Tail(t))

\* C13: the output of prune_redundant_hierarchy is all input edges whose
\* relation is not HAS_PART / HAS_EXERCISE, unchanged and in input order,
\* followed by containment edges of the input, unchanged and in input
\* order: no edge is added or altered, no other edge is removed.
C13_OthersPassThrough ==
    call = "prune_redundant_hierarchy" =>
        LET others == SelectSeq(arg_edges,
                          LAMBDA e : e.relation \notin {"HAS_PART", "HAS_EXERCISE"})
            containment == SelectSeq(arg_edges,
                               LAMBDA e : e.relation \in {"HAS_PART", "HAS_EXERCISE"})
        IN  /\ Len(ret.value) >= Len(others)
            /\ SubSeq(ret.value, 1, Len(others)) = others
            /\ IsSubsequence(SubSeq(ret.value, Len(others) + 1, Len(ret.value)),
                             containment)

\* A REQUIRES edge given after containment edges, one of which is removed.
C13_Witness ==
    /\ call = "prune_redundant_hierarchy"
    /\ Len(arg_edges) = 4
    /\ arg_edges[1].relation = "HAS_PART"
    /\ arg_edges[4].relation = "REQUIRES"
    /\ Len(ret.value) = 3
    /\ ret.value[1] = arg_edges[4]
    /\ ret.value[2].relation \in hierarchy_types

\* The run has gone past the combine step.
PastCombine == pc \in {"prune", "validate", "setup_schema", "ingest_nodes",
                       "ingest_relationships", "except", "finally", "closed"}

Triple(e) == <<e.source, e.target, e.relation>>

\* C14: the merged list holds each (source, target, relation) triple of the
\* explicit and the generated edges exactly once, and the edge kept for a
\* triple is the first one that has it in explicit-then-generated order:
\* an explicit edge (with its properties) wins over a generated one, the
\* first of two explicit edges wins over the second.
C14_MergedTriplesUnique ==
    PastCombine =>
        LET all == explicit_edges \o implicit_edges
        IN  /\ \A i \in 1..Len(combined_edges), j \in 1..Len(combined_edges) :
                   Triple(combined_edges[i]) = Triple(combined_edges[j]) => i = j
            /\ \A k \in 1..Len(all) :
                   \E i \in 1..Len(combined_edges) :
                       /\ Triple(combined_edges[i]) = Triple(all[k])
                       /\ \E f \in 1..k :
                              /\ combined_edges[i] = all[f]
                              /\ \A g \in 1..(f - 1) : Triple(all[g]) # Triple(all[f])
            /\ \A i \in 1..Len(combined_edges) :
                   \E k \in 1..Len(all) : Triple(all[k]) = Triple(combined_edges[i])

\* An explicit edge with a property and a generated edge share a triple:
\* the merged list has the explicit one only.
C14_Witness ==
    /\ PastCombine
    /\ \E i \in 1..Len(explicit_edges), k \in 1..Len(implicit_edges) :
           /\ Triple(explicit_edges[i]) = Triple(implicit_edges[k])
           /\ "weight" \in DOMAIN explicit_edges[i]
           /\ explicit_edges[i] \in Range(combined_edges)
           /\ implicit_edges[k] \notin Range(combined_edges)

\* C16: in a run that reaches the store, every edge handed to
\* ingest_relationships has a relation of the allowed set and a source and a
\* target that are ids of nodes handed to ingest_nodes.
C16_StoredEdgesWellFormed ==
    \A i \in 1..Len(store) :
        store[i].op = "ingest_relationships" =>
            \A k \in 1..Len(store[i].edges) :
                LET e == store[i].edges[k] IN
                /\ e.relation \in {"HAS_PART", "HAS_EXERCISE", "REQUIRES", "RELATED_TO"}
                /\ \E j \in 1..Len(store) :
                       /\ store[j].op = "ingest_nodes"
                       /\ \E n \in 1..Len(store[j].nodes) : store[j].nodes[n].id = e.source
                       /\ \E n \in 1..Len(store[j].nodes) : store[j].nodes[n].id = e.target

\* An edge to an Exercise node under its normalized id reaches the store
\* while a dangling explicit edge of the input does not.
C16_Witness ==
    /\ \E i \in 1..Len(store) :
           /\ store[i].op = "ingest_relationships"
           /\ \E k \in 1..Len(store[i].edges) :
                  store[i].edges[k].target = <<"A", "1", "EX">>
    /\ \E k \in 1..Len(explicit_edges) : IsDangling(nodes, explicit_edges[k])

\* The relations of the final edges for which the call made no session.run
\* that returned.
UnsentRelations(c) ==
    {final_edges[k].relation : k \in 1..Len(final_edges)}
        \ {c.runs[b].query : b \in 1..Len(c.runs)}

\* The i-th call of the store is the one a session.run of which raised: the
\* batch of that run was passed to the store too.
RaisedIn(i) == error = StoreError /\ i = Len(store)

\* C17: every final edge is sent to the store exactly once, in the batch of
\* its own relation, with props made of exactly its fields other than
\* source, target, relation and generated; generated is never sent.  The
\* batch whose session.run raised counts as sent.  (Violated: after a
\* session.run that raises, the batches of the relations that follow are
\* never passed to the store.)
C17_EdgesSentOncePerRelation ==
    \A i \in 1..Len(store) :
        store[i].op = "ingest_relationships" =>
            LET c == store[i] IN
            /\ c.edges = final_edges
            /\ Cardinality(UnsentRelations(c)) <= IF RaisedIn(i) THEN 1 ELSE 0
            /\ \A a \in 1..Len(c.runs), b \in 1..Len(c.runs) :
                   c.runs[a].query = c.runs[b].query => a = b
            /\ \A b \in 1..Len(c.runs) :
                   LET mine == SelectSeq(final_edges,
                                         LAMBDA e : e.relation = c.runs[b].query)
                       rows == c.runs[b].rows
                   IN  /\ Len(rows) = Len(mine)
                       /\ \A k \in 1..Len(rows) :
                              /\ DOMAIN rows[k] = {"source", "target", "props"}
                              /\ rows[k].source = mine[k].source
                              /\ rows[k].target = mine[k].target
                              /\ DOMAIN rows[k].props
                                     = DOMAIN mine[k] \ {"source", "target",
                                                         "relation", "generated"}
                              /\ \A key \in DOMAIN rows[k].props :
                                     rows[k].props[key] = mine[k][key]

\* The id without its last '_'-separated segment.
ParentId(id) == [k \in 1..(Len(id) - 1) |-> id[k]]

NodeIds(ns) == {ns[k].id : k \in 1..Len(ns)}

\* A node of the list that gets an implicit edge: its id has a '_' and its
\* immediate parent id is the id of a node.
HasParentNode(ns, n) == Len(n.id) >= 2 /\ ParentId(n.id) \in NodeIds(ns)

\* The edges the claim describes, one per node with a parent node, in node
\* order; label(n) is the label that decides the relation.
ImplicitEdgesBy(ns, label(_)) ==
    LET children == SelectSeq(ns, LAMBDA n : HasParentNode(ns, n))
    IN  [k \in 1..Len(children) |->
            [source |-> ParentId(children[k].id),
             target |-> children[k].id,
             relation |-> IF label(children[k]) = "Exercise"
                          THEN "HAS_EXERCISE" ELSE "HAS_PART",
             generated |-> TRUE]]

\* C15 as stated: one edge p -> n.id per node n whose id has a '_' and whose
\* immediate parent id p is a node id, none otherwise; HAS_EXERCISE when n's
\* own label is Exercise, HAS_PART otherwise; generated = TRUE; the node
\* list is unchanged.
C15_ImplicitEdgesByOwnLabel ==
    [][(call = "none" /\ call' = "generate_implicit_relationships")
          => /\ ret'.value = ImplicitEdgesBy(arg_nodes, LAMBDA n : n.label)
             /\ arg_nodes' = arg_nodes]_vars

\* C19: the outcome does not depend on the order in which unordered
\* collections are iterated: whatever order the set of REQUIRES endpoints is
\* walked in, validate_no_cycles gives the outcome that was observed (the
\* same success, or the same failure with the same reported node id).
C19_OutcomeIndependentOfOrder ==
    call = "validate_no_cycles"
        => \A order \in Orders(requires_all_nodes(arg_edges)) :
               validate_no_cycles(arg_edges, order, frames_left) = ret

PairwiseDistinctIds(ns) ==
    \A j, k \in 1..Len(ns) : ns[j].id = ns[k].id => j = k

\* C20: Exercise-id normalization preserves uniqueness of node ids: when the
\* ids of the input nodes are pairwise distinct, so are the ids after
\* pre-processing.
C20_NormalizationKeepsIdsDistinct ==
    (call = "normalize_nodes" /\ PairwiseDistinctIds(arg_nodes))
        => PairwiseDistinctIds(ret.value)

\* C18: every traversal reaches a result in finitely many steps: the
\* breadth-first search of prune_redundant_hierarchy returns its edge list,
\* the depth-first search of validate_no_cycles returns or reports a cycle,
\* whatever cycles, self-loops and duplicate edges the input has.
\* (Violated: the depth-first search recurses once per node of a REQUIRES
\* chain and is stopped by RecursionError when the chain is longer than the
\* calls the interpreter still lets nest.)
C18_TraversalsReachResult ==
    <>(frame.pc = "done" /\ ret.exception # "RecursionError")

----------------------------------------------------------------------------
(* C21 .. C24 *)

\* The ids the edges name as source or target.
Endpoints(edges) ==
    {edges[i].source : i \in 1..Len(edges)} \cup {edges[i].target : i \in 1..Len(edges)}

\* C21: pre-processing keeps the explicit edges consistent with the nodes:
\* when every endpoint of every explicit edge is the id of an input node,
\* then after Exercise-id normalization every node an explicit edge names
\* still has the id the edge names, and every endpoint is still the id of a
\* node (so that lenient validation, which sees these nodes and edges, drops
\* no explicit edge).
C21_ExplicitEdgesKeepTheirNodes ==
    [][(pc = "preprocess" /\ pc' = "generate"
            /\ Endpoints(explicit_edges) \subseteq NodeIds(nodes))
          => /\ \A k \in 1..Len(nodes) :
                    nodes[k].id \in Endpoints(explicit_edges)
                        => nodes'[k].id = nodes[k].id
             /\ Endpoints(explicit_edges') \subseteq NodeIds(nodes')]_vars

\* C22: for a node list with pairwise distinct ids the generated edges form
\* a forest: every node is the target of at most one generated edge, the
\* generated edges have no cycle, and prune_redundant_hierarchy applied to
\* them removes no edge (whatever order the adjacency sets are walked in).
C22_GeneratedEdgesAreForest ==
    (call = "generate_implicit_relationships" /\ PairwiseDistinctIds(arg_nodes))
        => /\ \A j, k \in 1..Len(ret.value) :
                  ret.value[j].target = ret.value[k].target => j = k
           /\ ~HasCycle(RelPairs(ret.value, hierarchy_types))
           /\ \A order \in AdjOrders(ret.value) :
                  prune_redundant_hierarchy(ret.value, order) = ret.value

\* Distinct ids A_1_1, B, A, A_1 (children before parents): the chain
\* A -> A_1 -> A_1_1 is generated.
C22_Witness ==
    /\ call = "generate_implicit_relationships"
    /\ arg_nodes = <<Node(A_1_1, "Exercise"), Node(B, "Topic"),
                     Node(A, "Topic"), Node(A_1, "Topic")>>
    /\ ret.value = <<Edge(A_1, A_1_1, "HAS_EXERCISE", TRUE),
                     Edge(A, A_1, "HAS_PART", TRUE)>>

\* C23: prune_redundant_hierarchy is idempotent: applied to its own output
\* it returns that output, the same edges in the same order (whatever order
\* the adjacency sets are walked in).
C23_PruneIdempotent ==
    call = "prune_redundant_hierarchy" =>
        \A order \in AdjOrders(ret.value) :
            prune_redundant_hierarchy(ret.value, order) = ret.value

\* A first application that removed the shortcut A -> C and kept a
\* non-containment edge in front.
C23_Witness ==
    /\ call = "prune_redundant_hierarchy"
    /\ arg_edges = <<Edge(A, B, "HAS_PART", FALSE), Edge(A, C, "HAS_PART", FALSE),
                     Edge(A, C, "REQUIRES", FALSE), Edge(B, C, "HAS_PART", FALSE)>>
    /\ ret.value = <<Edge(A, C, "REQUIRES", FALSE), Edge(A, B, "HAS_PART", FALSE),
                     Edge(B, C, "HAS_PART", FALSE)>>

\* The 0-based TOC index a node id was made from, and the level of its entry.
TocIndex(id) == id[2]

TocLevel(id) == arg_toc[TocIndex(id) + 1].level

\* C24: in the relationships extracted from a table of contents, every
\* REQUIRES edge goes from a node of an earlier TOC index to a node of a later
\* one, links two entries of the same level with no shallower entry between
\* them; each node is the target of at most one REQUIRES edge and at most one
\* HAS_PART edge; the REQUIRES relation is acyclic and the HAS_PART relation
\* is a forest.
C24_TocRelationshipsWellFormed ==
    call = "build_curriculum_from_pdf" =>
        LET rels == ret.value.relationships
            ids == NodeIds(ret.value.nodes)
        IN  /\ \A k \in 1..Len(rels) :
                  /\ rels[k].source \in ids
                  /\ rels[k].target \in ids
                  /\ rels[k].relation = "REQUIRES" =>
                        /\ TocIndex(rels[k].source) < TocIndex(rels[k].target)
                        /\ TocLevel(rels[k].source) = TocLevel(rels[k].target)
                        /\ \A i \in (TocIndex(rels[k].source) + 1)
                                        ..(TocIndex(rels[k].target) - 1) :
                               arg_toc[i + 1].level >= TocLevel(rels[k].target)
            /\ \A j, k \in 1..Len(rels) :
                  (rels[j].relation = rels[k].relation
                       /\ rels[j].target = rels[k].target) => j = k
            /\ ~HasCycle(RelPairs(rels, {"REQUIRES"}))
            /\ ~HasCycle(RelPairs(rels, {"HAS_PART"}))

\* Levels 1, 2, 2, 1: two parts of the first chapter, the second part after
\* the first, the second chapter after the first.
C24_Witness ==
    /\ call = "build_curriculum_from_pdf"
    /\ arg_toc = <<TocEntry(1, FALSE), TocEntry(2, FALSE),
                   TocEntry(2, TRUE), TocEntry(1, TRUE)>>
    /\ ret.value.relationships =
           <<TocRelationship(toc_node_id(0), toc_node_id(1), "HAS_PART"),
             TocRelationship(toc_node_id(0), toc_node_id(2), "HAS_PART"),
             TocRelationship(toc_node_id(1), toc_node_id(2), "REQUIRES"),
             TocRelationship(toc_node_id(0), toc_node_id(3), "REQUIRES")>>

====
